---- MODULE Spec2Model ----
(***************************************************************************)
(* DeepGallery gramplet (deepgallery.py): the media collector.             *)
(*                                                                         *)
(* The state is the genealogical database the gramplet reads, the active   *)
(* person of the host, and the gramplet's own fields (all_media,           *)
(* image_list) together with the position of main().  main() holds no      *)
(* yield statement, so once update() calls it no host event is handled     *)
(* until it returns or raises; its statements are modelled one per step,   *)
(* and every host event is guarded by main() not being on the stack.       *)
(*                                                                         *)
(* Handles are small naturals; 0 stands for "no active person" (None).     *)
(* A description is a sequence of character codes, compared as Python      *)
(* compares str: lexicographically by code point.                          *)
(* The database layer raises its lookup failure (HandleError) when a       *)
(* handle does not resolve; nothing in deepgallery.py catches it.          *)
(***************************************************************************)
EXTENDS Integers, Sequences, FiniteSets, TLC

\* ------------------------------------------------------------------ bounds
MaxMedia == 3
MaxChanges == 2

PersonHandles == {1, 2}
FamilyHandles == {1, 2}
EventHandles == {1, 2}
CitationHandles == {1, 2}
MediaHandles == 1..MaxMedia

NoHandle == 0

\* Descriptions: "M", "Ma", "a" as code points (77 = M, 97 = a).  "M" is a
\* proper prefix of "Ma", and "a" sorts after both: the comparison is
\* case-sensitive.
Descriptions == {<<77>>, <<77, 97>>, <<97>>}

VARIABLES db, active_handle, active, all_media, image_list, media_list, pc,
          changes, snap

vars == <<db, active_handle, active, all_media, image_list, media_list, pc,
          changes, snap>>

\* ------------------------------------------------------- pure helpers

\* Python's str "<": lexicographic by code point, a proper prefix is smaller.
RECURSIVE StrLess(_, _)
StrLess(s, t) ==
    IF t = <<>> THEN FALSE
    ELSE IF s = <<>> THEN TRUE
    ELSE IF Head(s) < Head(t) THEN TRUE
    ELSE IF Head(s) > Head(t) THEN FALSE
    ELSE StrLess(Tail(s), Tail(t))

Range(s) == {s[i] : i \in 1..Len(s)}

\* The dict self.all_media, kept in insertion order: a sequence of
\* <<media_handle, description>> items with distinct handles.
DictKeys(d) == {d[i][1] : i \in 1..Len(d)}

DictHas(d, h) == h \in DictKeys(d)

\* all_media[h] = desc
DictSet(d, h, desc) ==
    IF DictHas(d, h)
    THEN [i \in 1..Len(d) |-> IF d[i][1] = h THEN <<h, desc>> ELSE d[i]]
    ELSE Append(d, <<h, desc>>)

\* ------------------------------------------------ database accessors
\* db.person[p], db.family[f], db.event[e], db.citation[c], db.media[m] are
\* functions whose domain is the set of handles that resolve.
Resolves(table, h) == h \in DOMAIN table

\* The traversal state: ok = FALSE once a lookup has raised; all_media keeps
\* what was stored before the failure (the dict is updated in place).
Raise(st) == [ok |-> FALSE, all_media |-> st.all_media]

\* process_media() storing a placeholder description "u" for a media handle
\* that does not resolve, instead of letting the lookup raise.
RECURSIVE process_media_placeholder(_, _, _)
process_media_placeholder(d, mlist, st) ==
    IF ~st.ok \/ mlist = <<>> THEN st
    ELSE LET media_handle == Head(mlist) IN
         IF DictHas(st.all_media, media_handle)
         THEN process_media_placeholder(d, Tail(mlist), st)
         ELSE process_media_placeholder(d, Tail(mlist),
                  [st EXCEPT !.all_media =
                      DictSet(@, media_handle,
                              IF Resolves(d.media, media_handle)
                              THEN d.media[media_handle] ELSE <<117>>)])

\* process_media(gobj), over gobj.get_media_list()
RECURSIVE process_media(_, _, _)
process_media(d, mlist, st) ==
    IF ~st.ok \/ mlist = <<>> THEN st
    ELSE LET media_handle == Head(mlist) IN
         IF DictHas(st.all_media, media_handle)
         THEN process_media(d, Tail(mlist), st)
         ELSE IF ~Resolves(d.media, media_handle)
         THEN Raise(st)
         ELSE process_media(d, Tail(mlist),
                  [st EXCEPT !.all_media =
                      DictSet(@, media_handle, d.media[media_handle])])

\* process_citations() passing over a citation handle that does not resolve.
RECURSIVE process_citations_skip(_, _, _)
process_citations_skip(d, clist, st) ==
    IF ~st.ok \/ clist = <<>> THEN st
    ELSE LET cit_handle == Head(clist) IN
         IF ~Resolves(d.citation, cit_handle)
         THEN process_citations_skip(d, Tail(clist), st)
         ELSE process_citations_skip(d, Tail(clist),
                  process_media(d, d.citation[cit_handle], st))

\* process_citations(gobj), over gobj.get_citation_list()
RECURSIVE process_citations(_, _, _)
process_citations(d, clist, st) ==
    IF ~st.ok \/ clist = <<>> THEN st
    ELSE LET cit_handle == Head(clist) IN
         IF ~Resolves(d.citation, cit_handle)
         THEN Raise(st)
         ELSE process_citations(d, Tail(clist),
                  process_media(d, d.citation[cit_handle], st))

\* process_events() that never follows an event reference.
process_events_none(d, elist, st) == st

\* process_events(gobj), over gobj.get_event_ref_list()
RECURSIVE process_events(_, _, _)
process_events(d, elist, st) ==
    IF ~st.ok \/ elist = <<>> THEN st
    ELSE LET event_handle == Head(elist) IN
         IF ~Resolves(d.event, event_handle)
         THEN Raise(st)
         ELSE process_events(d, Tail(elist),
                  process_citations(d, d.event[event_handle], st))

\* for name in active.get_alternate_names(): self.process_citations(name)
RECURSIVE process_alternate_names(_, _, _)
process_alternate_names(d, names, st) ==
    IF ~st.ok \/ names = <<>> THEN st
    ELSE process_alternate_names(d, Tail(names),
             process_citations(d, Head(names), st))

\* for family_handle in active.get_family_handle_list(): ...
RECURSIVE process_families(_, _, _)
process_families(d, flist, st) ==
    IF ~st.ok \/ flist = <<>> THEN st
    ELSE LET family_handle == Head(flist) IN
         IF ~Resolves(d.family, family_handle)
         THEN Raise(st)
         ELSE LET family == d.family[family_handle] IN
              process_families(d, Tail(flist),
                  process_events(d, family.event_ref_list,
                      process_media(d, family.media_list, st)))

\* An unstable insertion: the item goes before the items of equal key.
RECURSIVE InsertBeforeEqual(_, _)
InsertBeforeEqual(sorted, item) ==
    IF sorted = <<>> THEN <<item>>
    ELSE IF ~StrLess(Head(sorted)[2], item[2])
    THEN <<item>> \o sorted
    ELSE <<Head(sorted)>> \o InsertBeforeEqual(Tail(sorted), item)

\* media_list.sort(key=lambda x: x[1]): a stable sort; an item goes after
\* every item already placed whose key is not greater than its own.
RECURSIVE InsertByDesc(_, _)
InsertByDesc(sorted, item) ==
    IF sorted = <<>> THEN <<item>>
    ELSE IF StrLess(item[2], Head(sorted)[2])
    THEN <<item>> \o sorted
    ELSE <<Head(sorted)>> \o InsertByDesc(Tail(sorted), item)

RECURSIVE SortByDesc(_)
SortByDesc(items) ==
    IF items = <<>> THEN <<>>
    ELSE InsertByDesc(SortByDesc(SubSeq(items, 1, Len(items) - 1)),
                      items[Len(items)])

\* clear_images() without `self.image_list = []`.
clear_images_keep(il) == il

\* clear_images(): self.image_list = []
clear_images(il) == <<>>

\* main() without the test of the active handle.
NoActiveNever(h) == FALSE

\* `if not active_handle`
NoActive(h) == h = NoHandle

\* main() without `self.all_media = dict()`.
KeepDict(old) == old

\* self.all_media = dict()
NewDict(old) == <<>>

\* A person record without any reference; also the value of main()'s local
\* `active` while main() is not running.
EmptyPerson ==
    [media_list |-> <<>>, citation_list |-> <<>>, primary_name |-> <<>>,
     alternate_names |-> <<>>, event_ref_list |-> <<>>,
     family_handle_list |-> <<>>]

\* A lookup that answers a handle that does not resolve with an empty person.
get_person_or_empty(d, h) ==
    [ok |-> TRUE,
     obj |-> IF Resolves(d.person, h) THEN d.person[h] ELSE EmptyPerson]

\* self.dbstate.db.get_person_from_handle(active_handle)
get_person_from_handle(d, h) ==
    IF Resolves(d.person, h)
    THEN [ok |-> TRUE, obj |-> d.person[h]]
    ELSE [ok |-> FALSE, obj |-> EmptyPerson]

\* db_changed() without the connection of 'media-delete'.
ConnectedWithoutMediaDelete ==
    {"person-update",
     "family-add", "family-update", "family-delete",
     "event-add", "event-delete", "event-update",
     "citation-add", "citation-delete", "citation-update",
     "media-add", "media-update"}

\* The signals db_changed() connects to self.update.
Connected ==
    {"person-update",
     "family-add", "family-update", "family-delete",
     "event-add", "event-delete", "event-update",
     "citation-add", "citation-delete", "citation-update",
     "media-add", "media-delete", "media-update"}

\* The signals the database emits for the record classes of the traversal.
Signals ==
    {"person-add", "person-update", "person-delete",
     "family-add", "family-update", "family-delete",
     "event-add", "event-update", "event-delete",
     "citation-add", "citation-update", "citation-delete",
     "media-add", "media-update", "media-delete"}

\* ---------------------------------------------------- the database
\* Shapes of the root person, one per collection rule of main().
PersonShapes ==
    {[EmptyPerson EXCEPT !.media_list = <<1>>, !.family_handle_list = <<1>>],
     [EmptyPerson EXCEPT !.citation_list = <<1>>],
     [EmptyPerson EXCEPT !.primary_name = <<2>>],
     [EmptyPerson EXCEPT !.alternate_names = << <<>>, <<1>> >>],
     [EmptyPerson EXCEPT !.event_ref_list = <<1>>],
     [EmptyPerson EXCEPT !.family_handle_list = <<1>>]}

\* The record person-add stores.
AddedPerson == [EmptyPerson EXCEPT !.media_list = <<2>>]

EmptyFamily == [media_list |-> <<>>, event_ref_list |-> <<>>]

SeedDb(shape) ==
    [person   |-> (1 :> shape),
     family   |-> (1 :> [media_list |-> <<1>>, event_ref_list |-> <<1>>]),
     event    |-> (1 :> <<1>>),
     citation |-> (1 :> <<2>>) @@ (2 :> <<2, 1>>),
     media    |-> (1 :> <<77>>) @@ (2 :> <<77>>)]

\* f without the key k
Without(f, k) == [x \in (DOMAIN f) \ {k} |-> f[x]]

\* the sequence s without the element h
Drop(s, h) == SelectSeq(s, LAMBDA x : x # h)

\* Removing every reference to a handle, as the host's delete dialogs do
\* before they remove the record itself.
UnrefMedia(d, m) ==
    [d EXCEPT
       !.person = [p \in DOMAIN @ |-> [@[p] EXCEPT !.media_list = Drop(@, m)]],
       !.family = [f \in DOMAIN @ |-> [@[f] EXCEPT !.media_list = Drop(@, m)]],
       !.citation = [c \in DOMAIN @ |-> Drop(@[c], m)]]

UnrefCitation(d, c) ==
    [d EXCEPT
       !.person = [p \in DOMAIN @ |->
                     [@[p] EXCEPT
                        !.citation_list = Drop(@, c),
                        !.primary_name = Drop(@, c),
                        !.alternate_names =
                            [i \in 1..Len(@) |-> Drop(@[i], c)]]],
       !.event = [e \in DOMAIN @ |-> Drop(@[e], c)]]

UnrefEvent(d, e) ==
    [d EXCEPT
       !.person = [p \in DOMAIN @ |->
                     [@[p] EXCEPT !.event_ref_list = Drop(@, e)]],
       !.family = [f \in DOMAIN @ |->
                     [@[f] EXCEPT !.event_ref_list = Drop(@, e)]]]

UnrefFamily(d, f) ==
    [d EXCEPT
       !.person = [p \in DOMAIN @ |->
                     [@[p] EXCEPT !.family_handle_list = Drop(@, f)]]]

\* The databases one commit announced by signal sig can leave behind.  A
\* delete either removes the references first (the host's dialogs) or leaves
\* them dangling (a raw removal).
Mutations(sig, d) ==
    CASE sig = "person-add" ->
           {[d EXCEPT !.person = @ @@ (p :> AddedPerson)] :
               p \in PersonHandles \ DOMAIN d.person}
      [] sig = "person-delete" ->
           {[d EXCEPT !.person = Without(@, p)] : p \in DOMAIN d.person}
      [] sig = "person-update" ->
           {[d EXCEPT !.person[p].media_list = Append(@, m)] :
               p \in DOMAIN d.person, m \in MediaHandles}
           \cup {[d EXCEPT !.person[p].family_handle_list = Append(@, f)] :
               p \in DOMAIN d.person, f \in FamilyHandles}
           \cup {[d EXCEPT !.person[p].media_list = <<>>] :
               p \in {q \in DOMAIN d.person : d.person[q].media_list # <<>>}}
      [] sig = "family-add" ->
           {[d EXCEPT !.family = @ @@
                (f :> [media_list |-> <<2>>, event_ref_list |-> <<1>>])] :
               f \in FamilyHandles \ DOMAIN d.family}
      [] sig = "family-update" ->
           {[d EXCEPT !.family[f].media_list = Append(@, m)] :
               f \in DOMAIN d.family, m \in MediaHandles}
      [] sig = "family-delete" ->
           {[d EXCEPT !.family = Without(@, f)] : f \in DOMAIN d.family}
           \cup {[UnrefFamily(d, f) EXCEPT !.family = Without(@, f)] :
               f \in DOMAIN d.family}
      [] sig = "event-add" ->
           {[d EXCEPT !.event = @ @@ (e :> <<2>>)] :
               e \in EventHandles \ DOMAIN d.event}
      [] sig = "event-update" ->
           {[d EXCEPT !.event[e] = Append(@, c)] :
               e \in DOMAIN d.event, c \in CitationHandles}
      [] sig = "event-delete" ->
           {[d EXCEPT !.event = Without(@, e)] : e \in DOMAIN d.event}
           \cup {[UnrefEvent(d, e) EXCEPT !.event = Without(@, e)] :
               e \in DOMAIN d.event}
      [] sig = "citation-add" ->
           {[d EXCEPT !.citation = @ @@ (c :> <<1>>)] :
               c \in CitationHandles \ DOMAIN d.citation}
      [] sig = "citation-update" ->
           {[d EXCEPT !.citation[c] = Append(@, m)] :
               c \in DOMAIN d.citation, m \in MediaHandles}
      [] sig = "citation-delete" ->
           {[d EXCEPT !.citation = Without(@, c)] : c \in DOMAIN d.citation}
           \cup {[UnrefCitation(d, c) EXCEPT !.citation = Without(@, c)] :
               c \in DOMAIN d.citation}
      [] sig = "media-add" ->
           {[d EXCEPT !.media = @ @@ (m :> desc)] :
               m \in MediaHandles \ DOMAIN d.media, desc \in Descriptions}
      [] sig = "media-update" ->
           \* desc = d.media[m]: an update of the path or the MIME type
           {[d EXCEPT !.media[m] = desc] :
               m \in DOMAIN d.media, desc \in Descriptions}
      [] sig = "media-delete" ->
           {[d EXCEPT !.media = Without(@, m)] : m \in DOMAIN d.media}
           \cup {[UnrefMedia(d, m) EXCEPT !.media = Without(@, m)] :
               m \in DOMAIN d.media}

\* --------------------------------------------------------- the gramplet
\* main() is not on the stack: the host main loop dispatches events.
HostHasControl == pc \in {"idle", "done", "returned", "failed"}

TypeOK ==
    /\ pc \in {"idle", "clear_images", "get_active", "get_person",
               "person_media", "person_citations", "name_citations",
               "person_events", "families", "sort", "add_image",
               "done", "returned", "failed"}
    /\ active_handle \in PersonHandles \cup {NoHandle}
    /\ changes \in 0..MaxChanges
    /\ snap.same \in BOOLEAN

\* init(): self.image_list = list(); nothing has run yet.
Init ==
    /\ \E shape \in PersonShapes : db = SeedDb(shape)
    /\ active_handle \in PersonHandles \cup {NoHandle}
    /\ active = EmptyPerson
    /\ all_media = <<>>
    /\ image_list = <<>>
    /\ media_list = <<>>
    /\ pc = "idle"
    /\ changes = 0
    /\ snap = [list |-> <<>>, same |-> FALSE]

\* update(): the host calls main().  snap remembers what was shown and
\* whether this run repeats a completed run on an unchanged input.
update ==
    /\ pc' = "clear_images"
    /\ snap' = [list |-> image_list,
                same |-> pc = "done" /\ db' = db
                             /\ active_handle' = active_handle]
    /\ UNCHANGED <<active, all_media, image_list, media_list>>

\* active_changed(handle): the host selected another person, or none.
active_changed ==
    /\ HostHasControl
    /\ \E h \in PersonHandles \cup {NoHandle} :
          /\ h # active_handle
          /\ active_handle' = h
    /\ UNCHANGED <<db, changes>>
    /\ update

\* A commit of the database, announced by one signal.
db_signal ==
    /\ HostHasControl
    /\ changes < MaxChanges
    /\ changes' = changes + 1
    /\ UNCHANGED active_handle
    /\ \E sig \in Signals :
          /\ \E d \in Mutations(sig, db) : db' = d
          /\ IF sig \in Connected
             THEN update
             ELSE /\ pc' = "idle"
                  /\ UNCHANGED <<active, all_media, image_list, media_list,
                                 snap>>

\* An exception leaves main(): its locals are gone, the fields stay.
Fail ==
    /\ pc' = "failed"
    /\ active' = EmptyPerson
    /\ media_list' = <<>>

\* One traversal statement of main(): all_media keeps what the statement
\* stored, and the statement either falls through to `next` or raises.
Traverse(st, next) ==
    /\ all_media' = st.all_media
    /\ IF st.ok
       THEN pc' = next /\ UNCHANGED <<active, media_list>>
       ELSE Fail
    /\ UNCHANGED <<db, active_handle, image_list, changes, snap>>

Start == [ok |-> TRUE, all_media |-> all_media]

\* self.clear_images()
Main_clear_images ==
    /\ pc = "clear_images"
    /\ image_list' = clear_images(image_list)
    /\ pc' = "get_active"
    /\ UNCHANGED <<db, active_handle, active, all_media, media_list, changes,
                   snap>>

\* active_handle = self.get_active('Person'); if not active_handle: return
Main_get_active ==
    /\ pc = "get_active"
    /\ pc' = IF NoActive(active_handle) THEN "returned" ELSE "get_person"
    /\ UNCHANGED <<db, active_handle, active, all_media, image_list,
                   media_list, changes, snap>>

\* active = self.dbstate.db.get_person_from_handle(active_handle)
\* self.all_media = dict()
Main_get_person ==
    /\ pc = "get_person"
    /\ LET r == get_person_from_handle(db, active_handle) IN
          IF r.ok
          THEN /\ active' = r.obj
               /\ all_media' = NewDict(all_media)
               /\ pc' = "person_media"
               /\ UNCHANGED media_list
          ELSE Fail /\ UNCHANGED all_media
    /\ UNCHANGED <<db, active_handle, image_list, changes, snap>>

\* self.process_media(active)
Main_person_media ==
    /\ pc = "person_media"
    /\ Traverse(process_media(db, active.media_list, Start),
                "person_citations")

\* self.process_citations(active)
Main_person_citations ==
    /\ pc = "person_citations"
    /\ Traverse(process_citations(db, active.citation_list, Start),
                "name_citations")

\* self.process_citations(active.get_primary_name()), then each alternate name
Main_name_citations ==
    /\ pc = "name_citations"
    /\ Traverse(process_alternate_names(db, active.alternate_names,
                    process_citations(db, active.primary_name, Start)),
                "person_events")

\* self.process_events(active)
Main_person_events ==
    /\ pc = "person_events"
    /\ Traverse(process_events(db, active.event_ref_list, Start), "families")

\* the loop over active.get_family_handle_list()
Main_families ==
    /\ pc = "families"
    /\ Traverse(process_families(db, active.family_handle_list, Start), "sort")

\* media_list = list(self.all_media.items()); media_list.sort(...)
Main_sort ==
    /\ pc = "sort"
    /\ media_list' = SortByDesc(all_media)
    /\ pc' = "add_image"
    /\ UNCHANGED <<db, active_handle, active, all_media, image_list, changes,
                   snap>>

\* one turn of `for media in media_list: self.add_image(media[0])`;
\* add_image() resolves the handle again before it appends the image.
Main_add_image ==
    /\ pc = "add_image"
    /\ media_list # <<>>
    /\ LET media_handle == Head(media_list)[1] IN
          IF Resolves(db.media, media_handle)
          THEN /\ image_list' = Append(image_list, media_handle)
               /\ media_list' = Tail(media_list)
               /\ UNCHANGED <<pc, active>>
          ELSE Fail /\ UNCHANGED image_list
    /\ UNCHANGED <<db, active_handle, all_media, changes, snap>>

\* self.content_box.show_all(); main() returns
Main_show_all ==
    /\ pc = "add_image"
    /\ media_list = <<>>
    /\ pc' = "done"
    /\ active' = EmptyPerson
    /\ UNCHANGED <<db, active_handle, all_media, image_list, media_list,
                   changes, snap>>

Next ==
    \/ active_changed
    \/ db_signal
    \/ Main_clear_images
    \/ Main_get_active
    \/ Main_get_person
    \/ Main_person_media
    \/ Main_person_citations
    \/ Main_name_citations
    \/ Main_person_events
    \/ Main_families
    \/ Main_sort
    \/ Main_add_image
    \/ Main_show_all

Spec == Init /\ [][Next]_vars

\* ==================================================== the properties
\* What the properties speak of, stated from the records of the database and
\* not from the traversal's own bookkeeping.  A handle that does not resolve
\* contributes no references.
MediaOf(d, c) == IF Resolves(d.citation, c) THEN d.citation[c] ELSE <<>>
CitationsOf(d, e) == IF Resolves(d.event, e) THEN d.event[e] ELSE <<>>
FamilyOf(d, f) == IF Resolves(d.family, f) THEN d.family[f] ELSE EmptyFamily
PersonOf(d, h) == IF Resolves(d.person, h) THEN d.person[h] ELSE EmptyPerson

CitationMedia(d, clist) == UNION {Range(MediaOf(d, c)) : c \in Range(clist)}
EventMedia(d, elist) ==
    UNION {CitationMedia(d, CitationsOf(d, e)) : e \in Range(elist)}

\* The union of the six collection rules.
RuleUnion(d, P) ==
    Range(P.media_list)
    \cup CitationMedia(d, P.citation_list)
    \cup CitationMedia(d, P.primary_name)
    \cup UNION {CitationMedia(d, P.alternate_names[i]) :
                   i \in 1..Len(P.alternate_names)}
    \cup EventMedia(d, P.event_ref_list)
    \cup UNION {Range(FamilyOf(d, f).media_list)
                \cup EventMedia(d, FamilyOf(d, f).event_ref_list) :
                   f \in Range(P.family_handle_list)}

\* The handles of each kind the person's graph refers to.
ReachFamilies(d, P) == Range(P.family_handle_list)
ReachEvents(d, P) ==
    Range(P.event_ref_list)
    \cup UNION {Range(FamilyOf(d, f).event_ref_list) : f \in ReachFamilies(d, P)}
ReachCitations(d, P) ==
    Range(P.citation_list) \cup Range(P.primary_name)
    \cup UNION {Range(P.alternate_names[i]) : i \in 1..Len(P.alternate_names)}
    \cup UNION {Range(CitationsOf(d, e)) : e \in ReachEvents(d, P)}
ReachMedia(d, P) ==
    Range(P.media_list)
    \cup UNION {Range(FamilyOf(d, f).media_list) : f \in ReachFamilies(d, P)}
    \cup UNION {Range(MediaOf(d, c)) : c \in ReachCitations(d, P)}

\* Some handle of the person's graph does not resolve.
Dangling(d, P) ==
    \/ ReachFamilies(d, P) \ DOMAIN d.family # {}
    \/ ReachEvents(d, P) \ DOMAIN d.event # {}
    \/ ReachCitations(d, P) \ DOMAIN d.citation # {}
    \/ ReachMedia(d, P) \ DOMAIN d.media # {}

\* The references to media in the order main() visits them, repeats kept.
RECURSIVE CitationVisits(_, _)
CitationVisits(d, clist) ==
    IF clist = <<>> THEN <<>>
    ELSE MediaOf(d, Head(clist)) \o CitationVisits(d, Tail(clist))

RECURSIVE EventVisits(_, _)
EventVisits(d, elist) ==
    IF elist = <<>> THEN <<>>
    ELSE CitationVisits(d, CitationsOf(d, Head(elist)))
         \o EventVisits(d, Tail(elist))

RECURSIVE NameVisits(_, _)
NameVisits(d, names) ==
    IF names = <<>> THEN <<>>
    ELSE CitationVisits(d, Head(names)) \o NameVisits(d, Tail(names))

RECURSIVE FamilyVisits(_, _)
FamilyVisits(d, flist) ==
    IF flist = <<>> THEN <<>>
    ELSE FamilyOf(d, Head(flist)).media_list
         \o EventVisits(d, FamilyOf(d, Head(flist)).event_ref_list)
         \o FamilyVisits(d, Tail(flist))

Visits(d, P) ==
    P.media_list
    \o CitationVisits(d, P.citation_list)
    \o CitationVisits(d, P.primary_name)
    \o NameVisits(d, P.alternate_names)
    \o EventVisits(d, P.event_ref_list)
    \o FamilyVisits(d, P.family_handle_list)

\* The place of the first visit of media handle m.
Discovery(d, P, m) ==
    LET v == Visits(d, P) IN
    IF m \in Range(v) THEN CHOOSE i \in 1..Len(v) :
                               v[i] = m /\ \A j \in 1..(i - 1) : v[j] # m
    ELSE 0

NoDuplicates(s) == \A i, j \in 1..Len(s) : s[i] = s[j] => i = j

Root == PersonOf(db, active_handle)
ActiveResolves ==
    active_handle # NoHandle /\ Resolves(db.person, active_handle)
RunEnded == pc \in {"done", "returned", "failed"}

\* C1: when a run completes for an active person that resolves, the media
\* identifiers it produced (the keys of all_media and the images shown) are
\* exactly the union of the six collection rules; none is outside it, and
\* nothing is shown when the union is empty.
C1_ResultIsRuleUnion ==
    pc = "done" =>
        /\ ActiveResolves
        /\ Range(image_list) = RuleUnion(db, Root)
        /\ DictKeys(all_media) = RuleUnion(db, Root)

C1_Witness ==
    /\ pc = "done"
    /\ Cardinality(Range(image_list)) >= 2
    /\ Range(Root.media_list) # RuleUnion(db, Root)
    /\ Root.family_handle_list # <<>>

\* C2: all_media and the displayed image list hold each media identifier at
\* most once, however many paths reach it.
C2_NoDuplicates ==
    /\ NoDuplicates(image_list)
    /\ NoDuplicates([i \in 1..Len(all_media) |-> all_media[i][1]])

C2_Witness ==
    /\ pc = "done"
    /\ snap.list # <<>>
    /\ \E m \in Range(image_list) :
          /\ m \in Range(Root.media_list)
          /\ \E f \in Range(Root.family_handle_list) :
                m \in Range(FamilyOf(db, f).media_list)

\* C3: the images of a completed run are in ascending order of description
\* (compared by code point), and images of equal description are in the
\* order of their first visit by the traversal.
C3_SortedStable ==
    pc = "done" =>
        \A i, j \in 1..Len(image_list) :
            i < j =>
               LET a == image_list[i]
                   b == image_list[j]
               IN /\ ~StrLess(db.media[b], db.media[a])
                  /\ db.media[a] = db.media[b] =>
                        Discovery(db, Root, a) < Discovery(db, Root, b)

C3_Witness ==
    /\ pc = "done"
    /\ \E i, j, k \in 1..Len(image_list) :
          /\ i < j
          /\ db.media[image_list[i]] = db.media[image_list[j]]
          /\ image_list[i] > image_list[j]
          /\ db.media[image_list[k]] # db.media[image_list[i]]

\* C4 as stated: a run for an active person identifier that does not resolve
\* ends without failing, with an empty result.
C4_UnresolvedPersonYieldsEmpty ==
    (RunEnded /\ active_handle # NoHandle /\ ~Resolves(db.person, active_handle))
        => (pc # "failed" /\ image_list = <<>>)

\* C4 amended: a run for an active person identifier that does not resolve
\* ends with the lookup failure of the database layer, after the display
\* was cleared: no image is shown and all_media is left as it was.
C4_UnresolvedPersonFails ==
    (RunEnded /\ active_handle # NoHandle /\ ~Resolves(db.person, active_handle))
        => (pc = "failed" /\ image_list = <<>>)

C4_Witness ==
    /\ pc = "failed"
    /\ active_handle # NoHandle
    /\ ~Resolves(db.person, active_handle)
    /\ snap.list # <<>>

\* C5: with no active person a run ends without error and with nothing
\* shown: the images of the earlier run are removed and none is added.
C5_NoActivePerson ==
    (RunEnded /\ active_handle = NoHandle)
        => (pc = "returned" /\ image_list = <<>>)

C5_Witness ==
    /\ pc = "returned"
    /\ active_handle = NoHandle
    /\ snap.list # <<>>

\* C6: every change of the active person and every commit announced by a
\* person-update or a family, event, citation or media add/update/delete
\* signal (a commit that leaves the set of persons alone) starts main();
\* main() first clears the display, and it starts the traversal from an
\* empty all_media.
C6_FullRecollection ==
    [][/\ (\/ active_handle' # active_handle
           \/ (changes' # changes /\ DOMAIN db'.person = DOMAIN db.person))
          => pc' = "clear_images"
       /\ pc = "clear_images" => (image_list' = <<>> /\ pc' = "get_active")
       /\ (pc = "get_person" /\ pc' # "failed")
          => (all_media' = <<>> /\ pc' = "person_media")]_vars

C6_Witness ==
    /\ pc = "person_media"
    /\ snap.list # <<>>
    /\ changes > 0
    /\ ~snap.same

\* C7: the result of a completed run depends on the current active person
\* and the current database only: every image is of a media record that
\* exists and that the person's graph refers to, with the description the
\* database holds now, and a run that repeats a completed run on an
\* unchanged input shows the same list.
C7_FunctionOfCurrentState ==
    pc = "done" =>
        /\ Range(image_list) \subseteq ReachMedia(db, Root) \cap DOMAIN db.media
        /\ \A i \in 1..Len(all_media) :
              /\ Resolves(db.media, all_media[i][1])
              /\ all_media[i][2] = db.media[all_media[i][1]]
        /\ snap.same => image_list = snap.list

C7_Witness ==
    /\ pc = "done"
    /\ image_list # <<>>
    /\ ~(Range(snap.list) \subseteq Range(image_list))

\* C8: a run over a graph in which a family, event, citation or media handle
\* does not resolve ends with the lookup failure, never with a result.
C8_DanglingFails ==
    (RunEnded /\ ActiveResolves /\ Dangling(db, Root))
        => (pc = "failed" /\ image_list = <<>>)

C8_Witness ==
    /\ pc = "failed"
    /\ ActiveResolves
    /\ Dangling(db, Root)
    /\ all_media # <<>>

\* C9 as stated: between the steps of a run, from the clearing of the
\* display to the showing of the result, the host main loop has control and
\* can dispatch an event.
C9_YieldsBetweenSteps ==
    ~HostHasControl => ENABLED active_changed

\* C10: whenever the host has control, the display is empty or is the whole
\* result of one run, every key of all_media once, in ascending order of
\* description; after a run that returned early or failed it is empty.  The
\* display is empty during every step that looks a record up, and every
\* handle add_image() is about to resolve resolves.
C10_NeverPartial ==
    /\ HostHasControl =>
          /\ pc \in {"returned", "failed"} => image_list = <<>>
          /\ \/ image_list = <<>>
             \/ /\ Range(image_list) = DictKeys(all_media)
                /\ Len(image_list) = Len(all_media)
                /\ \A i \in 1..(Len(image_list) - 1) :
                      \E k, l \in 1..Len(all_media) :
                         /\ all_media[k][1] = image_list[i]
                         /\ all_media[l][1] = image_list[i + 1]
                         /\ ~StrLess(all_media[l][2], all_media[k][2])
    /\ pc \in {"get_active", "get_person", "person_media", "person_citations",
               "name_citations", "person_events", "families", "sort"}
          => image_list = <<>>
    /\ pc = "add_image" =>
          \A i \in 1..Len(media_list) : Resolves(db.media, media_list[i][1])

C10_Witness ==
    /\ pc = "failed"
    /\ snap.list # <<>>
    /\ ActiveResolves
    /\ Len(all_media) >= 2

====
